---- MODULE Spec2Model ----
(***************************************************************************)
(* A model of the Blackjack round engine of src/blackjack.py with the      *)
(* rule set and the strategies of src/blackjack_sim1.py.                   *)
(*                                                                         *)
(* Conventions of the model                                                *)
(*  - A card is its rank (a string); the suit decides nothing in the round *)
(*    engine, so the shoe is a bag: rank -> number of cards left.          *)
(*  - random.shuffle followed by list.pop() is a nondeterministic choice   *)
(*    of any card still in the pool, made when the card is dealt.          *)
(*  - Money won or lost (payout, balance, results) is kept in HALF units:  *)
(*    the model's number is twice the program's, so that 1.5 * bet is the  *)
(*    integer 3 * bet.  Bets and outlays are in program units.             *)
(*  - A Python None is the empty sequence <<>>, a value v is <<v>>.        *)
(*  - depth_threshold is the exact fraction num/den.                       *)
(***************************************************************************)
EXTENDS Integers, Sequences, FiniteSets, TLC

\* ---------------------------------------------------------------- bounds
\* The deck holds the first NumRanks ranks of RankPick (4 suits each).
NumRanks == 3
\* play(num_rounds) is called with num_rounds in 0..MaxRounds.
MaxRounds == 2
\* add_player is called at most MaxPlayers times, with seats 1..MaxPlayers.
MaxPlayers == 2
\* play(num_rounds) plays at most MaxHandsPlayed player hands in all:
\* num_rounds * (number of players) <= MaxHandsPlayed.
MaxHandsPlayed == 2
\* Hands drawn as inputs of the pure functions hold at most MaxHandLen cards.
MaxHandLen == 3
\* A Hand built card by card holds at most MaxCardsAdded cards.
MaxCardsAdded == 5

\* ------------------------------------------------------------------ Card
\* Shoe._shuffle: the rank list of one deck, in source order.
RANKS == <<"A", "2", "3", "4", "5", "6", "7", "8", "9", "10", "J", "Q", "K">>

\* The order in which ranks enter the bounded deck.
RankPick == <<"A", "K", "6", "9", "5", "2", "10", "3", "4", "7", "8", "J", "Q">>

\* Card.SUITS
SUITS == {"SPADE", "HEART", "DIAMOND", "CLUB"}

\* Card._val_map
val_map ==
    ("A" :> <<1, 11>>) @@ ("J" :> <<10>>) @@ ("Q" :> <<10>>) @@ ("K" :> <<10>>)
    @@ ("2" :> <<2>>) @@ ("3" :> <<3>>) @@ ("4" :> <<4>>) @@ ("5" :> <<5>>)
    @@ ("6" :> <<6>>) @@ ("7" :> <<7>>) @@ ("8" :> <<8>>) @@ ("9" :> <<9>>)
    @@ ("10" :> <<10>>)

\* Card.values
values(card) == val_map[card]

\* len(Card.card_rep): the rank's characters plus one suit character.
card_rep_len(card) == (IF card = "10" THEN 2 ELSE 1) + 1

\* The ranks of the (bounded) deck.
ranks == {RankPick[i] : i \in 1..NumRanks}

\* ------------------------------------------------------------ sequences
RECURSIVE SumSeq(_)
SumSeq(s) == IF s = <<>> THEN 0 ELSE Head(s) + SumSeq(Tail(s))

SeqRange(s) == {s[i] : i \in 1..Len(s)}

SetMin(S) == CHOOSE x \in S : \A y \in S : x <= y

SetMax(S) == CHOOSE x \in S : \A y \in S : x >= y

\* sorted(set): the ascending list of the elements of S.
sorted(S) ==
    [i \in 1..Cardinality(S) |->
       CHOOSE x \in S : Cardinality({y \in S : y < x}) = i - 1]

RECURSIVE BagSize(_)
BagSize(b) ==
    IF DOMAIN b = {} THEN 0
    ELSE LET r == CHOOSE x \in DOMAIN b : TRUE
         IN b[r] + BagSize([x \in DOMAIN b \ {r} |-> b[x]])

\* Sequences over S of length lo..hi.
SeqsOf(S, lo, hi) == UNION {[1..n -> S] : n \in lo..hi}

\* ------------------------------------------------------------------ Shoe
\* Shoe.__init__ accepts 0 <= depth_threshold <= 1; num/den is exact.
Thresholds ==
    { [num |-> 0, den |-> 1], [num |-> 1, den |-> 2],
      [num |-> 3, den |-> 4], [num |-> 1, den |-> 1] }

\* The depth thresholds of the Games played: one that reshuffles between
\* rounds and the default of Game.__init__ (0.75).
GameThresholds == {[num |-> 1, den |-> 2], [num |-> 3, den |-> 4]}

\* The pool right after Shoe._shuffle.
full_pool(ndecks) == [r \in ranks |-> ndecks * Cardinality(SUITS)]

\* Shoe._shuffle
shuffle(sh) == [sh EXCEPT !.cards = full_pool(sh.ndecks)]

\* Shoe.__init__
new_shoe(num_decks, depth_threshold) ==
    shuffle([ndecks |-> num_decks,
             shoe_size |-> num_decks * Cardinality(ranks) * Cardinality(SUITS),
             depth_threshold |-> depth_threshold,
             cards |-> [r \in ranks |-> 0]])

max_cards(sh) == sh.shoe_size

num_cards(sh) == BagSize(sh.cards)

num_dealt(sh) == max_cards(sh) - num_cards(sh)

\* check_reshuffle with a strict comparison.
reshuffle_due_strict(dealt, maxc, thr) == dealt * thr.den > thr.num * maxc

\* The test of Shoe.check_reshuffle: num_dealt / max_cards >= depth_threshold.
reshuffle_due(dealt, maxc, thr) == dealt * thr.den >= thr.num * maxc

\* Shoe.check_reshuffle: the shoe it leaves.
check_reshuffle(sh) ==
    IF reshuffle_due(num_dealt(sh), max_cards(sh), sh.depth_threshold)
    THEN shuffle(sh) ELSE sh

\* Number of _shuffle calls check_reshuffle makes.
check_reshuffle_count(sh) ==
    IF reshuffle_due(num_dealt(sh), max_cards(sh), sh.depth_threshold)
    THEN 1 ELSE 0

\* deal_one that pops without the reshuffle check on an empty pool.
deal_one_no_check(sh) ==
    { [card |-> r, shoe |-> [sh EXCEPT !.cards[r] = @ - 1], nshuf |-> 0] :
        r \in {x \in ranks : sh.cards[x] > 0} }

\* deal_one that runs the reshuffle check before every card.
deal_one_always_checks(sh) ==
    LET sh1 == check_reshuffle(sh)
    IN { [card |-> r,
          shoe |-> [sh1 EXCEPT !.cards[r] = @ - 1],
          nshuf |-> check_reshuffle_count(sh)] :
            r \in {x \in ranks : sh1.cards[x] > 0} }

\* Shoe.deal_one: the set of outcomes (card returned, shoe left, _shuffle calls);
\* empty when list.pop() raises IndexError on an empty pool.
deal_one(sh) ==
    LET empty == num_cards(sh) = 0
        sh1 == IF empty THEN check_reshuffle(sh) ELSE sh
        n == IF empty THEN check_reshuffle_count(sh) ELSE 0
    IN { [card |-> r,
          shoe |-> [sh1 EXCEPT !.cards[r] = @ - 1],
          nshuf |-> n] : r \in {x \in ranks : sh1.cards[x] > 0} }

\* ------------------------------------------------------------------ Hand
None == <<>>

\* Hand.__init__
new_hand(seat_split, bet) ==
    [cards |-> <<>>, hole |-> None, bet |-> bet, payout |-> None,
     seat |-> seat_split[1], split |-> seat_split[2]]

\* Hand.num_cards
hand_num_cards(hand) == Len(hand.cards)

\* itertools.product(*card_vals) summed: the set of attainable sums.
RECURSIVE sums(_)
sums(cards) ==
    IF cards = <<>> THEN {0}
    ELSE {v + s : v \in SeqRange(values(Head(cards))), s \in sums(Tail(cards))}

\* Hand.scores; the sums are computed once (v), as the local variable is.
scores(hand) == CHOOSE r \in {sorted(v) : v \in {sums(hand.cards)}} : TRUE

\* [s for s in self.scores if s <= 21]
inplay_scores(hand) == SelectSeq(scores(hand), LAMBDA s : s <= 21)

\* best_score that reports a busted hand as 0.
best_score_bust_zero(hand) ==
    IF Len(inplay_scores(hand)) = 0 THEN 0
    ELSE SetMax(SeqRange(inplay_scores(hand)))

\* Hand.best_score, given self.scores.
best_of_scores(sc) ==
    IF Len(sc) = 0 THEN 0
    ELSE IF Len(SelectSeq(sc, LAMBDA s : s <= 21)) = 0 THEN SetMin(SeqRange(sc))
    ELSE SetMax(SeqRange(SelectSeq(sc, LAMBDA s : s <= 21)))

\* Hand.best_score
best_score(hand) == CHOOSE r \in {best_of_scores(v) : v \in {scores(hand)}} : TRUE

\* is_blackjack that takes any 21 for a blackjack.
is_blackjack_any_21(hand) == best_score(hand) = 21

\* Hand.is_blackjack
is_blackjack(hand) == hand_num_cards(hand) = 2 /\ best_score(hand) = 21

\* Hand.is_soft
is_soft(hand) == Len(inplay_scores(hand)) > 1

\* Hand.unhole
unhole(hand) ==
    IF hand.hole # None
    THEN [hand EXCEPT !.cards = Append(@, hand.hole[1]), !.hole = None]
    ELSE hand

\* add_card that lays the hole card face up.
add_card_face_up(hand, card, ishole) ==
    [hand EXCEPT !.cards = Append(@, card)]

\* Hand.add_card
add_card(hand, card, ishole) ==
    IF ishole THEN [hand EXCEPT !.hole = <<card>>]
    ELSE [hand EXCEPT !.cards = Append(@, card)]

\* len(Hand.cards): the characters of ','.join(card_rep).
RECURSIVE cards_str_len(_)
cards_str_len(cards) ==
    IF cards = <<>> THEN 0
    ELSE card_rep_len(Head(cards))
         + (IF Tail(cards) = <<>> THEN 0 ELSE 1 + cards_str_len(Tail(cards)))

\* --------------------------------------------------------------- RuleSet
STAY == "S"
HIT == "H"

\* calculate_payout without the blackjack bonus.
calculate_payout_no_bonus(player_hand, dealer_hand) ==
    IF best_score(player_hand) = 0 THEN (-2) * player_hand.bet
    ELSE IF best_score(player_hand) = best_score(dealer_hand) THEN 0
    ELSE IF best_score(player_hand) > best_score(dealer_hand)
         THEN 2 * player_hand.bet
    ELSE -2

\* calculate_payout with a blackjack paid 2:1.
calculate_payout_double_blackjack(player_hand, dealer_hand) ==
    IF best_score(player_hand) = 0 THEN (-2) * player_hand.bet
    ELSE IF best_score(player_hand) = best_score(dealer_hand) THEN 0
    ELSE IF best_score(player_hand) > best_score(dealer_hand)
         THEN (IF is_blackjack(player_hand) THEN 4 * player_hand.bet
               ELSE 2 * player_hand.bet)
    ELSE -2

\* RuleSet.calculate_payout, in half units.
calculate_payout(player_hand, dealer_hand) ==
    IF best_score(player_hand) = 0 THEN (-2) * player_hand.bet
    ELSE IF best_score(player_hand) = best_score(dealer_hand) THEN 0 * player_hand.bet
    ELSE IF best_score(player_hand) > best_score(dealer_hand)
         THEN (IF is_blackjack(player_hand) THEN 3 * player_hand.bet
               ELSE 2 * player_hand.bet)
    ELSE -2

\* get_dealer_play that hits a soft 17.
get_dealer_play_hits_soft17(hand) ==
    LET sc == inplay_scores(hand)
    IN IF Len(sc) = 0 THEN STAY
       ELSE IF sc[Len(sc)] > 17 \/ (sc[Len(sc)] = 17 /\ Len(sc) = 1) THEN STAY
       ELSE HIT

\* RuleSetBase.get_dealer_play, given the scores of at most 21.
dealer_play_of_scores(sc) ==
    IF Len(sc) = 0 THEN STAY
    ELSE IF sc[Len(sc)] > 16 THEN STAY
    ELSE IF sc[Len(sc)] <= 16 THEN HIT
    ELSE "InvalidMoveError"

\* RuleSetBase.get_dealer_play
get_dealer_play(hand) == CHOOSE r \in {dealer_play_of_scores(v) : v \in {inplay_scores(hand)}} : TRUE

\* -------------------------------------------------------------- Strategy
\* StrategyDefault.advise_bet, StrategyBasicHS.advise_bet
advise_bet(strategy) == 1

\* StrategyDefault.advise_play, given hand.scores.
default_play_of_scores(sc) ==
    IF Len(sc) = 0 THEN "InvalidMoveError"
    ELSE IF sc[Len(sc)] > 16 THEN STAY
    ELSE IF sc[Len(sc)] <= 16 THEN HIT
    ELSE "InvalidMoveError"

\* StrategyDefault.advise_play
default_advise_play(hand) == CHOOSE r \in {default_play_of_scores(v) : v \in {scores(hand)}} : TRUE

\* sum() of a tuple of booleans.
CountTrue(bs) == Cardinality({i \in 1..Len(bs) : bs[i]})

\* The decision table with the Ace left out of "soft 18 against 9, 10 or A".
basic_table_no_ace(upcard, score, soft) ==
    LET hard == ~soft
        hit_conditions == <<
            hard /\ score <= 11,
            hard /\ score = 12 /\ upcard \in {2, 3, 7, 8, 9, 10, 11},
            hard /\ score \in 13..16 /\ upcard \in {7, 8, 9, 10, 11},
            soft /\ score <= 17,
            soft /\ score = 18 /\ upcard \in {9, 10} >>
        stay_conditions == <<
            hard /\ score = 12 /\ upcard \in 4..6,
            hard /\ score \in 13..16 /\ upcard \in 2..6,
            hard /\ score >= 17,
            soft /\ score = 18 /\ upcard \in 2..8,
            soft /\ score >= 19 >>
    IN IF CountTrue(hit_conditions) + CountTrue(stay_conditions) = 1
       THEN (IF CountTrue(hit_conditions) = 1 THEN HIT ELSE STAY)
       ELSE "InvalidMoveError"

\* The decision table of StrategyBasicHS.advise_play for the Dealer's
\* upcard, the Hand's best score and its softness.
basic_table(upcard, score, soft) ==
    LET hard == ~soft
        hit_conditions == <<
            hard /\ score <= 11,
            hard /\ score = 12 /\ upcard \in {2, 3, 7, 8, 9, 10, 11},
            hard /\ score \in 13..16 /\ upcard \in {7, 8, 9, 10, 11},
            soft /\ score <= 17,
            soft /\ score = 18 /\ upcard \in {9, 10, 11} >>
        stay_conditions == <<
            hard /\ score = 12 /\ upcard \in 4..6,
            hard /\ score \in 13..16 /\ upcard \in 2..6,
            hard /\ score >= 17,
            soft /\ score = 18 /\ upcard \in 2..8,
            soft /\ score >= 19 >>
        num_hit_conditions == CountTrue(hit_conditions)
        num_stay_conditions == CountTrue(stay_conditions)
    IN IF num_hit_conditions + num_stay_conditions = 1
       THEN (IF num_hit_conditions = 1 THEN HIT ELSE STAY)
       ELSE "InvalidMoveError"

\* StrategyBasicHS.advise_play; table is Strategy._hands (the round's Hands).
\* upcard, score and soft are computed once, as the local variables of the
\* method are.
basic_advise_play(table, hand) ==
    IF hand_num_cards(table[1]) > 1 THEN "InvalidStateError"
    ELSE IF best_score(table[1]) \notin 2..11 THEN "InvalidStateError"
    ELSE CHOOSE play \in {HIT, STAY, "InvalidMoveError"} :
            \E upcard \in {best_score(table[1])}, score \in {best_score(hand)},
               soft \in {is_soft(hand)} :
                  play = basic_table(upcard, score, soft)

Strategies == {"StrategyDefault", "StrategyBasicHS"}

\* Strategy.advise_play, dispatched on the Player's strategy class.
advise_play(strategy, table, hand) ==
    IF strategy = "StrategyDefault" THEN default_advise_play(hand)
    ELSE basic_advise_play(table, hand)


\* ---------------------------------------------------------------- Player
\* Player.__init__; hands are positions in Game._hands (the Hand objects are
\* shared by reference); history is len(Strategy._cards).
new_player(seat, strategy) ==
    [seat |-> seat, strategy |-> strategy, hands |-> <<>>,
     net_game_winnings |-> 0, outlays |-> 0, history |-> 0]

\* check_reshuffle with the comparison turned around.
strategy_check_reshuffle_reversed(history, dealt) ==
    IF dealt > history THEN 0 ELSE history

\* Strategy.check_reshuffle: the history length it leaves.
strategy_check_reshuffle(history, dealt) == IF history > dealt THEN 0 ELSE history

\* Strategy.observe: the history length it leaves (one entry per character
\* of each Hand.cards string of the round's Hands).
strategy_observe(history, table) ==
    history + SumSeq([k \in 1..Len(table) |-> cards_str_len(table[k].cards)])

\* Player.net_round_winnings raises when a payout is None.
payout_unset(p, table) == \E k \in SeqRange(p.hands) : table[k].payout = None

\* Player.net_round_winnings
net_round_winnings(p, table) ==
    SumSeq([k \in 1..Len(p.hands) |-> table[p.hands[k]].payout[1]])

\* sum([h.bet for h in self._hands])
round_bets(p, table) == SumSeq([k \in 1..Len(p.hands) |-> table[p.hands[k]].bet])

\* observe that overwrites the running totals with the round's amounts.
player_observe_overwrite(p, table) ==
    [p EXCEPT !.outlays = round_bets(p, table),
              !.net_game_winnings = net_round_winnings(p, table),
              !.history = strategy_observe(@, table)]

\* Player.observe
player_observe(p, table) ==
    [p EXCEPT !.outlays = @ + round_bets(p, table),
              !.net_game_winnings = @ + net_round_winnings(p, table),
              !.history = strategy_observe(@, table)]

\* A division that never fails.
division_never_fails(p) == FALSE

\* Player.profit_per_dollar: the division raises ZeroDivisionError.
division_by_zero(p) == p.outlays = 0

\* Player.profit_per_dollar, as the fraction balance / outlays.
profit_per_dollar(p) == [num |-> p.net_game_winnings, den |-> p.outlays]

\* self._players.sort(key=lambda p: p.seat): a stable insertion of the
\* appended player into the seat-ordered list.
sort_by_seat(ps, p) ==
    LET before == SelectSeq(ps, LAMBDA q : q.seat <= p.seat)
        after == SelectSeq(ps, LAMBDA q : q.seat > p.seat)
    IN before \o <<p>> \o after

\* ------------------------------------------------------------------ state
VARIABLES
    shoe,        \* Game._shoe
    hands,       \* Game._hands; hands[1] is Game._dealer
    players,     \* Game._players
    round_num,   \* Game._round_num
    results,     \* Game._results: None or the (lazy) generator
    pc,          \* the position in Game.play
    err,         \* the exception that ended the run, "none" otherwise
    num_rounds,  \* the argument of Game.play
    iround,      \* the loop index of Game.play
    deal_pos,    \* how many cards Game._deal has dealt in this round
    cur,         \* the player whose play_through runs in Game._play_hands
    emitted,     \* the record Game.play computed for the round just ended
    ret,         \* the value Game.play returned
    nshuf,       \* Shoe._shuffle calls made by the last operation
    op           \* the last operation

vars == <<shoe, hands, players, round_num, results, pc, err, num_rounds,
          iround, deal_pos, cur, emitted, ret, nshuf, op>>

\* Game.__init__ with the Shoe's constructor arguments drawn.
Init ==
    /\ shoe \in {new_shoe(1, t) : t \in GameThresholds}
    /\ hands = <<>>
    /\ players = <<>>
    /\ round_num = 0
    /\ results = None
    /\ pc = "config"
    /\ err = "none"
    /\ num_rounds = 0
    /\ iround = 0
    /\ deal_pos = 0
    /\ cur = 0
    /\ emitted = None
    /\ ret = None
    /\ nshuf = 1
    /\ op = "Game"

\* An exception leaves the round loop: Game.play catches nothing.
Raise(e, name) ==
    /\ pc' = "raised"
    /\ err' = e
    /\ op' = name

\* A loop that runs once more than asked.
more_rounds_off_by_one(i, n) == i <= n

\* for iround in range(num_rounds): the loop goes on after i rounds.
more_rounds(i, n) == i < n

\* Game.add_player
AddPlayer ==
    /\ pc = "config"
    /\ Len(players) < MaxPlayers
    /\ \E seat \in 1..MaxPlayers, strategy \in Strategies :
          /\ \A i \in 1..Len(players) : players[i].seat # seat
          /\ players' = sort_by_seat(players, new_player(seat, strategy))
    /\ nshuf' = 0
    /\ op' = "add_player"
    /\ UNCHANGED <<shoe, hands, round_num, results, pc, err, num_rounds,
                   iround, deal_pos, cur, emitted, ret>>

\* Game.play(n): entry; the first _play_round starts unless n = 0.
Play ==
    /\ pc = "config"
    /\ \E n \in 0..MaxRounds :
          /\ n * Len(players) <= MaxHandsPlayed
          /\ num_rounds' = n
          /\ pc' = IF more_rounds(0, n) THEN "setup" ELSE "return"
    /\ iround' = 0
    /\ nshuf' = 0
    /\ op' = "play"
    /\ UNCHANGED <<shoe, hands, players, round_num, results, err, deal_pos,
                   cur, emitted, ret>>

\* Game._play_round up to the end of Game._setup_round.
SetupRound ==
    /\ pc = "setup"
    /\ round_num' = round_num + 1
    /\ shoe' = check_reshuffle(shoe)
    /\ nshuf' = check_reshuffle_count(shoe)
    /\ results' = None
    /\ hands' = <<new_hand(<<0, 0>>, 0)>>
                \o [i \in 1..Len(players) |->
                      new_hand(<<players[i].seat, 0>>, advise_bet(players[i].strategy))]
    /\ players' = [i \in 1..Len(players) |->
                     [players[i] EXCEPT
                        !.hands = <<i + 1>>,
                        !.history = strategy_check_reshuffle(@, num_dealt(shoe'))]]
    /\ deal_pos' = 0
    /\ emitted' = None
    /\ pc' = "deal"
    /\ op' = "setup_round"
    /\ UNCHANGED <<err, num_rounds, iround, cur, ret>>

\* _deal that hides the Dealer's second card instead of its first.
deal_target_hole_second(k, nhands) ==
    LET i == k \div nhands
        j == k % nhands
    IN IF j < nhands - 1 THEN [hand |-> j + 2, ishole |-> FALSE]
       ELSE [hand |-> 1, ishole |-> (i = 1)]

\* The Hand that receives the card number k (from 0) of Game._deal, and
\* whether it is the hole card.
deal_target(k, nhands) ==
    LET i == k \div nhands
        j == k % nhands
    IN IF j < nhands - 1 THEN [hand |-> j + 2, ishole |-> FALSE]
       ELSE [hand |-> 1, ishole |-> (i = 0)]

\* Game._deal, one card per step.
DealStep ==
    /\ pc = "deal"
    /\ IF deal_one(shoe) = {}
       THEN /\ Raise("IndexError", "deal")
            /\ nshuf' = check_reshuffle_count(shoe)
            /\ UNCHANGED <<shoe, hands, deal_pos>>
       ELSE /\ \E o \in deal_one(shoe) :
                 LET t == deal_target(deal_pos, Len(hands))
                 IN /\ shoe' = o.shoe
                    /\ nshuf' = o.nshuf
                    /\ hands' = [hands EXCEPT ![t.hand] = add_card(@, o.card, t.ishole)]
            /\ deal_pos' = deal_pos + 1
            /\ pc' = IF deal_pos + 1 = 2 * Len(hands) THEN "play" ELSE "deal"
            /\ op' = "deal"
            /\ UNCHANGED err
    /\ UNCHANGED <<players, round_num, results, num_rounds, iround, cur,
                   emitted, ret>>

\* Game._play_hands: the test of the Dealer's blackjack.
PlayHands ==
    /\ pc = "play"
    /\ pc' = IF ~is_blackjack(hands[1]) THEN "players" ELSE "resolve"
    /\ cur' = 1
    /\ nshuf' = 0
    /\ op' = "play_hands"
    /\ UNCHANGED <<shoe, hands, players, round_num, results, err, num_rounds,
                   iround, deal_pos, emitted, ret>>

\* Player.play_through of the current player, one decision per step.
PlayerStep ==
    /\ pc = "players"
    /\ cur <= Len(players)
    /\ \E h \in {players[cur].hands[1]},
          play \in {advise_play(players[cur].strategy, hands,
                                hands[players[cur].hands[1]])} :
          IF play = HIT
          THEN IF deal_one(shoe) = {}
               THEN /\ Raise("IndexError", "player_hit")
                    /\ nshuf' = check_reshuffle_count(shoe)
                    /\ UNCHANGED <<shoe, hands, cur>>
               ELSE /\ \E o \in deal_one(shoe) :
                         /\ shoe' = o.shoe
                         /\ nshuf' = o.nshuf
                         /\ hands' = [hands EXCEPT ![h] = add_card(@, o.card, FALSE)]
                    /\ op' = "player_hit"
                    /\ UNCHANGED <<pc, err, cur>>
          ELSE IF play = STAY
          THEN /\ cur' = cur + 1
               /\ nshuf' = 0
               /\ op' = "player_stay"
               /\ UNCHANGED <<shoe, hands, pc, err>>
          ELSE /\ Raise(play, "player_advise")
               /\ nshuf' = 0
               /\ UNCHANGED <<shoe, hands, cur>>
    /\ UNCHANGED <<players, round_num, results, num_rounds, iround, deal_pos,
                   emitted, ret>>

\* for h in self._hands[1:]: if h.best_score > 0: inplay = True
inplay(table) == \E k \in 2..Len(table) : best_score(table[k]) > 0

\* Game._play_hands after the players: the Dealer plays through (and first
\* reveals its hole card) if a hand is in play.
DealerBegin ==
    /\ pc = "players"
    /\ cur > Len(players)
    /\ IF inplay(hands)
       THEN /\ hands' = [hands EXCEPT ![1] = unhole(@)]
            /\ pc' = "dealer"
            /\ op' = "dealer_unhole"
       ELSE /\ pc' = "resolve"
            /\ op' = "dealer_skipped"
            /\ UNCHANGED hands
    /\ nshuf' = 0
    /\ UNCHANGED <<shoe, players, round_num, results, err, num_rounds, iround,
                   deal_pos, cur, emitted, ret>>

\* Dealer.play_through after unhole, one decision per step.
DealerStep ==
    /\ pc = "dealer"
    /\ \E play \in {get_dealer_play(hands[1])} :
          IF play = HIT
          THEN IF deal_one(shoe) = {}
               THEN /\ Raise("IndexError", "dealer_hit")
                    /\ nshuf' = check_reshuffle_count(shoe)
                    /\ UNCHANGED <<shoe, hands>>
               ELSE /\ \E o \in deal_one(shoe) :
                         /\ shoe' = o.shoe
                         /\ nshuf' = o.nshuf
                         /\ hands' = [hands EXCEPT ![1] = add_card(@, o.card, FALSE)]
                    /\ op' = "dealer_hit"
                    /\ UNCHANGED <<pc, err>>
          ELSE IF play = STAY
          THEN /\ pc' = "resolve"
               /\ nshuf' = 0
               /\ op' = "dealer_stay"
               /\ UNCHANGED <<shoe, hands, err>>
          ELSE /\ Raise(play, "dealer_play")
               /\ nshuf' = 0
               /\ UNCHANGED <<shoe, hands>>
    /\ UNCHANGED <<players, round_num, results, num_rounds, iround, deal_pos,
                   cur, emitted, ret>>

\* _resolve_hands that stops one Hand short.
resolve_hands_skip_last(table) ==
    [k \in 1..Len(table) |->
       IF k = 1 \/ k = Len(table) THEN table[k]
       ELSE [table[k] EXCEPT !.payout = <<calculate_payout(table[k], table[1])>>]]

\* The Hands list after the loop of Game._resolve_hands.
resolve_hands(table) ==
    [k \in 1..Len(table) |->
       IF k = 1 THEN table[k]
       ELSE [table[k] EXCEPT !.payout = <<calculate_payout(table[k], table[1])>>]]

\* Game._resolve_hands
ResolveHands ==
    /\ pc = "resolve"
    /\ hands' = resolve_hands(hands)
    /\ results' = <<"generator">>
    /\ pc' = "observe"
    /\ nshuf' = 0
    /\ op' = "resolve_hands"
    /\ UNCHANGED <<shoe, players, round_num, err, num_rounds, iround, deal_pos,
                   cur, emitted, ret>>

\* The first player whose net_round_winnings raises, 0 if none does.
first_unset(ps, table) ==
    IF \E i \in 1..Len(ps) : payout_unset(ps[i], table)
    THEN SetMin({i \in 1..Len(ps) : payout_unset(ps[i], table)})
    ELSE 0

\* Game._observe
Observe ==
    /\ pc = "observe"
    /\ LET f == first_unset(players, hands)
       IN IF f = 0
          THEN /\ players' = [i \in 1..Len(players) |-> player_observe(players[i], hands)]
               /\ pc' = "emit"
               /\ op' = "observe"
               /\ UNCHANGED err
          ELSE /\ players' = [i \in 1..Len(players) |->
                                IF i < f THEN player_observe(players[i], hands)
                                ELSE IF i = f
                                THEN [players[i] EXCEPT
                                        !.outlays = @ + round_bets(players[i], hands)]
                                ELSE players[i]]
               /\ Raise("InvalidStateError", "observe")
    /\ nshuf' = 0
    /\ UNCHANGED <<shoe, hands, round_num, results, num_rounds, iround,
                   deal_pos, cur, emitted, ret>>

\* Game.play after _play_round: the round's record is computed (the results
\* generator is consumed here), then the loop goes on or ends.
EmitRound ==
    /\ pc = "emit"
    /\ IF first_unset(players, hands) # 0
       THEN /\ Raise("InvalidStateError", "emit")
            /\ UNCHANGED <<emitted, iround>>
       ELSE IF \E i \in 1..Len(players) : division_by_zero(players[i])
       THEN /\ Raise("ZeroDivisionError", "emit")
            /\ UNCHANGED <<emitted, iround>>
       ELSE /\ emitted' = << [iround |-> iround + 1,
                              frac_dealt |-> [num |-> num_dealt(shoe),
                                              den |-> max_cards(shoe)],
                              results |-> [i \in 1..Len(players) |->
                                             net_round_winnings(players[i], hands)],
                              balances |-> [i \in 1..Len(players) |->
                                              players[i].net_game_winnings],
                              profits |-> [i \in 1..Len(players) |->
                                             profit_per_dollar(players[i])]] >>
            /\ iround' = iround + 1
            /\ pc' = IF more_rounds(iround + 1, num_rounds) THEN "setup"
                     ELSE "return"
            /\ op' = "emit"
            /\ UNCHANGED err
    /\ nshuf' = 0
    /\ UNCHANGED <<shoe, hands, players, round_num, results, num_rounds,
                   deal_pos, cur, ret>>

\* Game.play: return list(p.profit_per_dollar() for p in self._players)
Return ==
    /\ pc = "return"
    /\ IF \E i \in 1..Len(players) : division_by_zero(players[i])
       THEN /\ Raise("ZeroDivisionError", "return")
            /\ UNCHANGED ret
       ELSE /\ ret' = << [i \in 1..Len(players) |-> profit_per_dollar(players[i])] >>
            /\ pc' = "done"
            /\ op' = "return"
            /\ UNCHANGED err
    /\ nshuf' = 0
    /\ emitted' = None
    /\ UNCHANGED <<shoe, hands, players, round_num, results, num_rounds,
                   iround, deal_pos, cur>>

Next ==
    \/ AddPlayer
    \/ Play
    \/ SetupRound
    \/ DealStep
    \/ PlayHands
    \/ PlayerStep
    \/ DealerBegin
    \/ DealerStep
    \/ ResolveHands
    \/ Observe
    \/ EmitRound
    \/ Return

Spec == Init /\ [][Next]_vars

\* A Game made with the default depth_threshold of Game.__init__.
InitFair == Init /\ shoe = new_shoe(1, [num |-> 3, den |-> 4])

\* The program is one thread that always takes its next step, and its caller
\* does call play().
SpecFair == InitFair /\ [][Next]_vars /\ WF_vars(Next)


\* ----------------------------------------------------- the Shoe by itself
\* The Shoe used directly, as test_Shoe does: deal_one and check_reshuffle
\* called in any order on a Shoe of one or two decks.
ShoeDecks == {1, 2}

\* The exceptions are counted per Shoe operation, as in the Game.
InitShoe ==
    /\ shoe \in {new_shoe(n, t) : n \in ShoeDecks, t \in Thresholds}
    /\ hands = <<>>
    /\ players = <<>>
    /\ round_num = 0
    /\ results = None
    /\ pc = "shoe"
    /\ err = "none"
    /\ num_rounds = 0
    /\ iround = 0
    /\ deal_pos = 0
    /\ cur = 0
    /\ emitted = None
    /\ ret = None
    /\ nshuf = 1
    /\ op = "Shoe"

\* Shoe.deal_one
ShoeDealOne ==
    /\ pc = "shoe"
    /\ IF deal_one(shoe) = {}
       THEN /\ Raise("IndexError", "deal_one")
            /\ nshuf' = check_reshuffle_count(shoe)
            /\ UNCHANGED shoe
       ELSE /\ \E o \in deal_one(shoe) :
                 /\ shoe' = o.shoe
                 /\ nshuf' = o.nshuf
            /\ op' = "deal_one"
            /\ UNCHANGED <<pc, err>>
    /\ UNCHANGED <<hands, players, round_num, results, num_rounds, iround,
                   deal_pos, cur, emitted, ret>>

\* Shoe.check_reshuffle
ShoeCheckReshuffle ==
    /\ pc = "shoe"
    /\ shoe' = check_reshuffle(shoe)
    /\ nshuf' = check_reshuffle_count(shoe)
    /\ op' = "check_reshuffle"
    /\ UNCHANGED <<hands, players, round_num, results, pc, err, num_rounds,
                   iround, deal_pos, cur, emitted, ret>>

NextShoe ==
    \/ ShoeDealOne
    \/ ShoeCheckReshuffle

SpecShoe == InitShoe /\ [][NextShoe]_vars

\* ------------------------------------------- Resolve on arbitrary Hands
\* Stakes a Strategy may advise (advise_bet is non-negative).
Bets == {0, 1, 2, 10}

\* A Hand holding the given visible cards.
hand_of(seat, bet, cards) == [new_hand(<<seat, 0>>, bet) EXCEPT !.cards = cards]

\* Game._resolve_hands entered with any Dealer hand and any Player hand of
\* at most MaxHandLen cards and any stake.
InitPayout ==
    /\ shoe = new_shoe(1, [num |-> 3, den |-> 4])
    /\ \E dc \in SeqsOf(ranks, 0, MaxHandLen), hc \in SeqsOf(ranks, 0, MaxHandLen),
          bet \in Bets :
          hands = <<hand_of(0, 0, dc), hand_of(1, bet, hc)>>
    /\ players = <<>>
    /\ round_num = 1
    /\ results = None
    /\ pc = "resolve"
    /\ err = "none"
    /\ num_rounds = 1
    /\ iround = 0
    /\ deal_pos = 0
    /\ cur = 0
    /\ emitted = None
    /\ ret = None
    /\ nshuf = 0
    /\ op = "hands"

NextPayout == ResolveHands

SpecPayout == InitPayout /\ [][NextPayout]_vars

\* ----------------------------------------------------- the Hand by itself
\* A Hand used directly, as test_Hand does: add_card (visible or hole) and
\* unhole called in any order on a new Hand.
InitHand ==
    /\ shoe = new_shoe(1, [num |-> 3, den |-> 4])
    /\ hands = <<new_hand(<<0, 0>>, 0)>>
    /\ players = <<>>
    /\ round_num = 0
    /\ results = None
    /\ pc = "hand"
    /\ err = "none"
    /\ num_rounds = 0
    /\ iround = 0
    /\ deal_pos = 0
    /\ cur = 0
    /\ emitted = None
    /\ ret = None
    /\ nshuf = 1
    /\ op = "Hand"

\* Hand.add_card
HandAddCard ==
    /\ pc = "hand"
    /\ \E card \in ranks, ishole \in BOOLEAN :
          /\ Len(hands[1].cards) + (IF ishole THEN 0 ELSE Len(hands[1].hole))
                < MaxCardsAdded
          /\ hands' = <<add_card(hands[1], card, ishole)>>
    /\ op' = "add_card"
    /\ UNCHANGED <<shoe, players, round_num, results, pc, err, num_rounds,
                   iround, deal_pos, cur, emitted, ret, nshuf>>

\* Hand.unhole
HandUnhole ==
    /\ pc = "hand"
    /\ hands' = <<unhole(hands[1])>>
    /\ op' = "unhole"
    /\ UNCHANGED <<shoe, players, round_num, results, pc, err, num_rounds,
                   iround, deal_pos, cur, emitted, ret, nshuf>>

NextHand ==
    \/ HandAddCard
    \/ HandUnhole

SpecHand == InitHand /\ [][NextHand]_vars


\* ================================================================ claims
\* All attainable totals of the hand exceed 21.
Busted(hand) == \A t \in sums(hand.cards) : t > 21

\* The positions of the Player Hands in Game._hands.
PlayerHands == 2..Len(hands)

\* Resolve has assigned the Hand at position k its payout.
Paid(k) == hands[k].payout # None

\* The two cards Game._deal gave the Dealer: the hole card, then the up card.
DealerDealt ==
    IF hands[1].hole # None THEN <<hands[1].hole[1], hands[1].cards[1]>>
    ELSE <<hands[1].cards[2], hands[1].cards[1]>>

\* Game._deal has finished in the current round.
AfterDeal == pc \in {"play", "players", "dealer", "resolve", "observe", "emit"}

\* The pc values between the end of Setup and the end of Observe.
MidRound == {"deal", "play", "players", "dealer", "resolve", "observe"}

\* The operations that draw a card from the Shoe.
DrawOps == {"deal", "player_hit", "dealer_hit"}

\* C1: a busted Player hand (all totals over 21) is paid exactly -bet by
\* Resolve, whatever the Dealer's hand.
C1_BustedPaysMinusBet ==
    \A k \in PlayerHands :
        (Paid(k) /\ Busted(hands[k])) => hands[k].payout[1] = (-2) * hands[k].bet

\* C2: a Player hand whose best score is strictly below the Dealer's is
\* paid -bet, for every bet.
C2_LowerPaysMinusBet ==
    \A k \in PlayerHands :
        (Paid(k) /\ best_score(hands[k]) < best_score(hands[1]))
            => hands[k].payout[1] = (-2) * hands[k].bet

\* C3: a Player hand that is not busted is paid 0 on equal best scores, and
\* on a strictly greater best score 1.5 * bet when it is a two-card 21 and
\* bet otherwise.
C3_PushAndWin ==
    \A k \in PlayerHands :
        (Paid(k) /\ ~Busted(hands[k]) /\ best_score(hands[k]) # 0) =>
            LET ps == SetMax({t \in sums(hands[k].cards) : t <= 21})
                ds == best_score(hands[1])
            IN /\ ps = ds => hands[k].payout[1] = 0
               /\ ps > ds => hands[k].payout[1] =
                      IF Len(hands[k].cards) = 2 /\ ps = 21
                      THEN 3 * hands[k].bet ELSE 2 * hands[k].bet

\* A two-card blackjack with stake 10 has been paid 15 against a lower Dealer.
C3_Witness ==
    /\ pc = "observe"
    /\ Len(hands) = 2
    /\ hands[2].cards = <<"A", "K">>
    /\ hands[2].bet = 10
    /\ best_score(hands[1]) = 20
    /\ hands[2].payout = <<30>>

\* C4: when the Dealer's two dealt cards total 21, no Player hand and no
\* Dealer hand draws a further card in the round.
C4_DealerBlackjackSkipsPlay ==
    (AfterDeal /\ 21 \in sums(DealerDealt)) =>
        /\ \A k \in PlayerHands : Len(hands[k].cards) = 2
        /\ Len(hands[1].cards) + Len(hands[1].hole) = 2

\* C5: when every Player hand is busted after the Players have played, the
\* Dealer draws no card and its hole card stays hidden.
C5_DealerIdleWhenAllBusted ==
    (pc \in {"resolve", "observe", "emit"} /\ PlayerHands # {}
        /\ \A k \in PlayerHands : Busted(hands[k])) =>
            /\ hands[1].hole # None
            /\ Len(hands[1].cards) = 1

\* C6: whenever a Player reads payouts (Observe, the round's results), every
\* Player Hand of the round has its payout; the unset-payout error is never
\* raised.
C6_PayoutsSetBeforeRead ==
    /\ pc \in {"observe", "emit"} =>
          /\ \A k \in PlayerHands : Paid(k)
          /\ \A i \in 1..Len(players) : ~payout_unset(players[i], hands)
    /\ ~(err = "InvalidStateError" /\ op \in {"observe", "emit"})

\* Two Players have observed a resolved round.
C6_Witness ==
    /\ pc = "emit"
    /\ op = "observe"
    /\ Len(players) = 2
    /\ \A i \in 1..2 : players[i].outlays = 1
    /\ \A k \in PlayerHands : Paid(k)

\* C7 (as claimed): no card drawn between the end of Setup and the end of
\* Observe rebuilds the shoe pool.
C7_NoMidRoundReshuffle == op \in DrawOps => nshuf = 0

\* C7 (amended): between the end of Setup and the end of Observe the pool is
\* rebuilt only by a deal_one that finds the pool empty, and then once.
C7_MidRoundReshuffleOnlyWhenEmpty ==
    [][(pc \in MidRound) =>
         nshuf' = (IF num_cards(shoe) = 0 /\ op' \in DrawOps THEN 1 ELSE 0)]_vars

\* A Player's hit found the pool empty and was served from a rebuilt pool.
C7_Witness ==
    /\ pc = "players"
    /\ op = "player_hit"
    /\ nshuf = 1
    /\ num_cards(shoe) = max_cards(shoe) - 1

\* C8: deal_one on a non-empty pool removes one card and rebuilds nothing;
\* on an empty pool it rebuilds once and leaves max_cards - 1 cards; it
\* never fails.  (So max_cards deals from a fresh Shoe empty it unshuffled.)
C8_ShoeExhaustion ==
    [][op' = "deal_one" =>
         /\ err' = "none"
         /\ IF num_cards(shoe) = 0
            THEN nshuf' = 1 /\ num_cards(shoe') = max_cards(shoe) - 1
            ELSE (nshuf' = 0 /\ num_cards(shoe') = num_cards(shoe) - 1)]_vars

\* The deal after max_cards deals: one reshuffle, max_cards - 1 cards left.
C8_Witness ==
    /\ op = "deal_one"
    /\ nshuf = 1
    /\ err = "none"
    /\ num_cards(shoe) = max_cards(shoe) - 1
    /\ shoe.depth_threshold = [num |-> 1, den |-> 1]

\* C9: check_reshuffle rebuilds the pool to max_cards cards iff
\* num_dealt / max_cards >= depth_threshold and otherwise changes nothing;
\* at threshold 3/4 of 52 cards that is from 39 dealt on, not at 38.
C9_ReshuffleThreshold ==
    [][op' = "check_reshuffle" =>
         /\ IF num_dealt(shoe) * shoe.depth_threshold.den
                 >= shoe.depth_threshold.num * max_cards(shoe)
            THEN /\ nshuf' = 1
                 /\ num_cards(shoe') = max_cards(shoe)
                 /\ \A r \in ranks : shoe'.cards[r] = shoe.ndecks * 4
            ELSE nshuf' = 0 /\ shoe' = shoe
         /\ reshuffle_due(39, 52, [num |-> 3, den |-> 4])
         /\ ~reshuffle_due(38, 52, [num |-> 3, den |-> 4])]_vars

\* check_reshuffle fired exactly at three quarters of one deck dealt.
C9_Witness ==
    /\ op = "check_reshuffle"
    /\ nshuf = 1
    /\ shoe.ndecks = 1
    /\ shoe.depth_threshold = [num |-> 3, den |-> 4]
    /\ num_cards(shoe) = max_cards(shoe)

\* The table as Game._deal must leave it.
DealtShape ==
    /\ deal_pos = 2 * (Len(players) + 1)
    /\ Len(hands) = Len(players) + 1
    /\ \A k \in PlayerHands :
          /\ Len(hands[k].cards) = 2
          /\ hands[k].hole = None
          /\ hands[k].seat = players[k - 1].seat
    /\ \A i \in 1..Len(players), j \in 1..Len(players) :
          i < j => players[i].seat <= players[j].seat
    /\ hands[1].hole # None
    /\ Len(hands[1].cards) = 1

\* C10: each card of Game._deal goes, pass after pass, to the Player Hands in
\* seat order and then to the Dealer, whose first card becomes the hole card;
\* after 2 * (players + 1) cards every Player Hand holds two visible cards
\* and the Dealer one hidden and one visible card.
C10_DealOrder ==
    [][(pc = "deal" /\ pc' # "raised") =>
         LET n == Len(players)
             toDealer == (deal_pos + 1) % (n + 1) = 0
             target == IF toDealer THEN 1 ELSE (deal_pos % (n + 1)) + 2
         IN /\ deal_pos' = deal_pos + 1
            /\ \A k \in 1..Len(hands) : k # target => hands'[k] = hands[k]
            /\ IF toDealer /\ deal_pos < n + 1
               THEN /\ hands[1].hole = None
                    /\ hands'[1].hole # None
                    /\ hands'[1].cards = hands[1].cards
               ELSE /\ Len(hands'[target].cards) = Len(hands[target].cards) + 1
                    /\ hands'[target].hole = hands[target].hole
            /\ (pc' = "play") = (deal_pos' = 2 * (n + 1))
            /\ pc' = "play" => DealtShape']_vars

\* Two Players, seated out of order when added, have been dealt.
C10_Witness ==
    /\ pc = "play"
    /\ DealtShape
    /\ Len(players) = 2
    /\ players[1].seat = 1
    /\ players[2].seat = 2
    /\ num_dealt(shoe) = 6


\* The cards on the table, the hidden hole card included.
TableCards ==
    SumSeq([k \in 1..Len(hands) |-> Len(hands[k].cards) + Len(hands[k].hole)])

\* The visible cards on the table.
VisibleCards == SumSeq([k \in 1..Len(hands) |-> Len(hands[k].cards)])

\* C11: when the shoe was reshuffled since the Strategies last checked (by
\* this Setup's check, or during the round before: then fewer cards are
\* dealt from the shoe than lie on the table), the check_reshuffle made by
\* make_bet in Setup leaves every Strategy's history empty.
C11_HistoryResetAfterReshuffle ==
    [][(pc = "setup" /\ (check_reshuffle_count(shoe) = 1
                          \/ TableCards > num_dealt(shoe))) =>
         /\ pc' = "deal"
         /\ \A i \in 1..Len(players) : players'[i].history = 0]_vars

\* A second round starts with a reshuffle and an emptied history.
C11_Witness ==
    /\ op = "setup_round"
    /\ round_num = 2
    /\ nshuf = 1
    /\ Len(players) = 1
    /\ players[1].outlays = 1
    /\ players[1].history = 0

\* C12: Strategy.observe adds one history entry per visible card of the
\* round's Hands, so that the history never holds more entries than the shoe
\* has dealt cards while the shoe was not reshuffled during the round.
C12_ObserveAddsOneEntryPerCard ==
    [][(pc = "observe" /\ pc' = "emit") =>
         \A i \in 1..Len(players) :
            /\ players'[i].history = players[i].history + VisibleCards
            /\ TableCards <= num_dealt(shoe)
                  => players'[i].history <= num_dealt(shoe)]_vars

\* C13: each Player.observe adds exactly the round's stake and the round's
\* payout of the Player's Hand to outlays and balance; with the unit bet the
\* outlay after k completed rounds is k.
C13_Bookkeeping ==
    [][(pc = "observe" /\ pc' = "emit") =>
         \A i \in 1..Len(players) :
            /\ players'[i].outlays = players[i].outlays + hands[i + 1].bet
            /\ players'[i].net_game_winnings =
                  players[i].net_game_winnings + hands[i + 1].payout[1]
            /\ players'[i].outlays = round_num]_vars

\* A Player has observed its second round.
C13_Witness ==
    /\ op = "observe"
    /\ pc = "emit"
    /\ round_num = 2
    /\ Len(players) = 1
    /\ players[1].outlays = 2
    /\ players[1].net_game_winnings = 5


\* C14: with one Player using StrategyDefault and the unit bet, the payout
\* emitted for every round is one of -1, 0, +1, +1.5 (in half units
\* -2, 0, 2, 3).
C14_UnitBetPayouts ==
    (/\ emitted # None
     /\ Len(players) = 1
     /\ players[1].strategy = "StrategyDefault")
       => /\ Len(emitted[1].results) = 1
          /\ emitted[1].results[1] \in {-2, 0, 2, 3}
          /\ hands[2].bet = 1

\* A round in which the single StrategyDefault Player is paid 1.5.
C14_Witness ==
    /\ emitted # None
    /\ Len(players) = 1
    /\ players[1].strategy = "StrategyDefault"
    /\ emitted[1].results = <<3>>

\* C15: profit_per_dollar is balance / outlays and fails with
\* ZeroDivisionError when the outlay is 0; Game.play does not catch it: the
\* call of play() ends with that error and returns nothing.
C15_ProfitPerDollar ==
    [][/\ pc # "raised"
       /\ pc = "return" =>
            IF \E i \in 1..Len(players) : players[i].outlays = 0
            THEN pc' = "raised" /\ err' = "ZeroDivisionError" /\ ret' = None
            ELSE /\ pc' = "done"
                 /\ err' = "none"
                 /\ ret' = << [i \in 1..Len(players) |->
                                 [num |-> players[i].net_game_winnings,
                                  den |-> players[i].outlays]] >>]_vars

\* play(0) of a Game with a Player has ended with ZeroDivisionError.
C15_Witness ==
    /\ pc = "raised"
    /\ err = "ZeroDivisionError"
    /\ op = "return"
    /\ ret = None
    /\ num_rounds = 0
    /\ Len(players) = 1
    /\ players[1].outlays = 0


\* The sums obtained by choosing one of its values for each card: a choice
\* g picks the g[i]-th value of card i.
ChoiceSums(cards) ==
    {SumSeq([i \in 1..Len(cards) |-> values(cards[i])[g[i]]]) :
        g \in {f \in [1..Len(cards) -> 1..2] :
                 \A i \in 1..Len(cards) : f[i] <= Len(values(cards[i]))}}

\* C16: scores is the ascending, duplicate-free list of all sums that choose
\* one value per visible card; best_score is the largest such sum that is at
\* most 21 if there is one, and otherwise the smallest sum (above 21); an
\* empty hand has scores [0] and best_score 0; the hidden hole card counts
\* in neither.
C16_HandScoring ==
    \A k \in 1..Len(hands) :
       LET c == hands[k].cards
           S == ChoiceSums(c)
           U == {s \in S : s <= 21}
           sc == scores(hands[k])
           b == best_score(hands[k])
       IN /\ SeqRange(sc) = S
          /\ \A i \in 1..(Len(sc) - 1) : sc[i] < sc[i + 1]
          /\ U # {} => (b \in U /\ \A s \in U : s <= b)
          /\ U = {} => (b \in S /\ b > 21 /\ \A s \in S : b <= s)
          /\ c = <<>> => (sc = <<0>> /\ b = 0)

\* A Hand of A,A,K,K with a hidden 6: every sum is above 21 and the best
\* score is the smallest of them.
C16_Witness ==
    /\ op = "add_card"
    /\ hands[1].hole = <<"6">>
    /\ hands[1].cards = <<"A", "A", "K", "K">>
    /\ scores(hands[1]) = <<22, 32, 42>>
    /\ best_score(hands[1]) = 22

\* C17: is_blackjack holds exactly for a Hand of two visible cards whose
\* largest sum of at most 21 is 21; it is false for the empty Hand and for a
\* 21 of three or more cards.
C17_Blackjack ==
    \A k \in 1..Len(hands) :
       LET c == hands[k].cards
       IN /\ is_blackjack(hands[k]) <=> (Len(c) = 2 /\ 21 \in ChoiceSums(c))
          /\ Len(c) # 2 => ~is_blackjack(hands[k])

\* A resolved round: the Player's 21 of three cards beats the Dealer's 20
\* and is paid as a plain win, and a two-card 21 is a blackjack.
C17_Witness ==
    /\ pc = "observe"
    /\ hands[1].cards = <<"K", "K">>
    /\ hands[2].cards = <<"A", "K", "K">>
    /\ best_score(hands[2]) = 21
    /\ ~is_blackjack(hands[2])
    /\ hands[2].bet = 1
    /\ hands[2].payout = <<2>>
    /\ is_blackjack([hands[2] EXCEPT !.cards = <<"A", "K">>])


\* The sums of at most 21 of the visible cards.
InPlaySums(cards) == {s \in ChoiceSums(cards) : s <= 21}

\* C19: Dealer.play_through first reveals the hole card, then draws exactly
\* one card while the highest total of at most 21 is 16 or less and stops
\* at the first STAY; on return the Dealer's hand is bust or its highest
\* total of at most 21 is 17 or more (a soft 17 stays).
C19_DealerPlayThrough ==
    [][/\ (pc = "players" /\ pc' = "dealer") =>
             /\ hands[1].hole # None
             /\ hands'[1].hole = None
             /\ hands'[1].cards = hands[1].cards \o hands[1].hole
       /\ (pc = "dealer") =>
             LET U == InPlaySums(hands[1].cards)
             IN IF U # {} /\ \A s \in U : s <= 16
                THEN /\ pc' = "dealer"
                     /\ Len(hands'[1].cards) = Len(hands[1].cards) + 1
                     /\ SubSeq(hands'[1].cards, 1, Len(hands[1].cards))
                           = hands[1].cards
                     /\ hands'[1].hole = None
                ELSE /\ pc' = "resolve"
                     /\ hands' = hands
                     /\ shoe' = shoe
                     /\ (U = {} \/ \E s \in U : s >= 17)]_vars

\* The Dealer has stayed on a soft 17.
C19_Witness ==
    /\ pc = "resolve"
    /\ op = "dealer_stay"
    /\ hands[1].hole = None
    /\ hands[1].cards \in {<<"A", "6">>, <<"6", "A">>}
    /\ InPlaySums(hands[1].cards) = {7, 17}

\* C20: StrategyDefault.advise_play gives, for every dealt Hand that is not
\* busted, the decision of the Dealer rule: HIT exactly when the best score
\* of at most 21 is 16 or less, STAY otherwise.
C20_DefaultMimicsDealer ==
    (/\ pc = "players"
     /\ cur <= Len(players)
     /\ players[cur].strategy = "StrategyDefault"
     /\ InPlaySums(hands[cur + 1].cards) # {})
       => /\ advise_play(players[cur].strategy, hands, hands[cur + 1])
                = get_dealer_play(hands[cur + 1])
          /\ advise_play(players[cur].strategy, hands, hands[cur + 1]) = HIT
                <=> \A s \in InPlaySums(hands[cur + 1].cards) : s <= 16


\* The phases of a round.
RoundPhases ==
    {"setup", "deal", "play", "players", "dealer", "resolve", "observe", "emit"}

\* The steps from one position of play() to the next, in the order of
\* _play_round: Setup, Deal, Play (players, then Dealer), Resolve, Observe.
PhaseOrder ==
    {<<"config", "config">>, <<"config", "setup">>, <<"config", "return">>,
     <<"setup", "deal">>, <<"deal", "deal">>, <<"deal", "play">>,
     <<"play", "players">>, <<"players", "players">>,
     <<"players", "dealer">>, <<"players", "resolve">>,
     <<"dealer", "dealer">>, <<"dealer", "resolve">>,
     <<"resolve", "observe">>, <<"observe", "emit">>,
     <<"emit", "setup">>, <<"emit", "return">>,
     <<"return", "done">>, <<"return", "raised">>}

\* C18: with RuleSetBase and the default strategies every round goes through
\* Setup, Deal, Play, Resolve and Observe in this order and finishes (each
\* play_through loop ends), and play(num_rounds) runs exactly num_rounds
\* rounds and then comes to its return.
C18_Termination ==
    /\ [][\E t \in PhaseOrder : pc = t[1] /\ pc' = t[2]]_vars
    /\ [](pc \in RoundPhases => (iround < num_rounds /\ round_num <= iround + 1))
    /\ [](pc \in {"return", "done", "raised"} =>
             (iround = num_rounds /\ round_num = num_rounds))
    /\ <>(pc \in {"done", "raised"})

\* play(2) has run two rounds and returned.
C18_Witness ==
    /\ pc = "done"
    /\ num_rounds = 2
    /\ round_num = 2
    /\ iround = 2
    /\ Len(players) = 1
    /\ ret # None


\* The moves of RuleSet.ValidMoves the policies may return.
Moves == {HIT, STAY}

\* C21: the default policies always decide: for every hand on the table
\* while the Players and the Dealer play, and every Dealer up card 2..11,
\* get_dealer_play, StrategyDefault.advise_play and the decision table of
\* StrategyBasicHS give HIT or STAY, the advice actually asked of the
\* Player's Strategy is HIT or STAY, and InvalidMoveError is never raised.
C21_PoliciesDecide ==
    /\ err # "InvalidMoveError"
    /\ (pc = "players" /\ cur <= Len(players)) =>
          advise_play(players[cur].strategy, hands, hands[cur + 1]) \in Moves
    /\ (pc \in {"players", "dealer"}) =>
          \A k \in 1..Len(hands) :
             /\ get_dealer_play(hands[k]) \in Moves
             /\ default_advise_play(hands[k]) \in Moves
             /\ \A score \in {best_score(hands[k])}, soft \in {is_soft(hands[k])} :
                   \A upcard \in 2..11 :
                      basic_table(upcard, score, soft) \in Moves

\* A StrategyBasicHS Player has drawn to a soft 18 (A,A,6) against the
\* Dealer's Ace, where the table says HIT.
C21_Witness ==
    /\ pc = "players"
    /\ op = "player_hit"
    /\ cur = 1
    /\ players[1].strategy = "StrategyBasicHS"
    /\ hands[2].cards = <<"A", "A", "6">>
    /\ hands[1].cards = <<"A">>
    /\ advise_play(players[1].strategy, hands, hands[2]) = HIT


\* C22: from the end of Deal until Dealer.play_through is called, the
\* Dealer's hand in the shared Hands list shows exactly one card (the hole
\* card is kept apart from the cards and the scores) and its best score
\* lies in 2..11; StrategyBasicHS.advise_play never raises InvalidStateError
\* during a Player's play_through.
C22_HoleCardHidden ==
    /\ ~(err = "InvalidStateError" /\ op = "player_advise")
    /\ (pc \in {"play", "players"}) =>
          /\ Len(hands[1].cards) = 1
          /\ hands[1].hole # None
          /\ hand_num_cards(hands[1]) = 1
          /\ ChoiceSums(hands[1].cards) = SeqRange(scores(hands[1]))
          /\ best_score(hands[1]) \in 2..11
          /\ \A i \in 1..Len(players) :
                (cur = i /\ players[i].strategy = "StrategyBasicHS") =>
                   basic_advise_play(hands, hands[i + 1]) # "InvalidStateError"

\* A StrategyBasicHS Player was advised to stay while the Dealer shows a
\* King beside a hidden Ace.
C22_Witness ==
    /\ pc = "players"
    /\ op = "player_stay"
    /\ Len(players) = 1
    /\ players[1].strategy = "StrategyBasicHS"
    /\ hands[1].cards = <<"K">>
    /\ hands[1].hole = <<"A">>
    /\ best_score(hands[1]) = 10


\* C23: when the Dealer's final hand is bust (all totals over 21) and a
\* Player hand is not bust, Resolve pays that Player hand a positive amount:
\* bet, or 1.5 * bet for a two-card blackjack.
C23_DealerBustPaysPlayer ==
    \A k \in PlayerHands :
       (Paid(k) /\ hands[1].hole = None /\ Busted(hands[1])
          /\ ~Busted(hands[k])) =>
             /\ hands[k].payout[1] > 0
             /\ hands[k].payout[1] =
                   (IF is_blackjack(hands[k]) THEN 3 ELSE 2) * hands[k].bet

====
